---- MODULE Spec2Model ----
(***************************************************************************)
(* State-machine model of the librarian and counselor dashboards.          *)
(*                                                                         *)
(* The backend tables (books, book_issues, counseling_requests) are shared *)
(* by every open dashboard.  A dashboard ("session") holds React state     *)
(* (snapshot arrays, stats, loading flag).  Every invocation of an async   *)
(* function (the mount effect's load, a button's handler) is a "run": it   *)
(* advances from one await to the next, and other runs may take steps in   *)
(* between.  The code between two awaits is one atomic action.             *)
(***************************************************************************)
EXTENDS Integers, Sequences, FiniteSets, TLC

\* ---------------------------------------------------------------- bounds
NumBooks == 2
NumIssues == 2
NumSessions == 2
MaxCopies == 1
MaxRuns == 3
\* backend calls that answer with an error in one behaviour
MaxFaults == 1
\* copies of the one book of the approve-then-return scenario
ScenarioCopies == 2
\* rows of a snapshot handed to the stats reducers
MaxRows == 4
NumRequests == 2
NumCounselors == 2

\* ------------------------------------------------------- program constants
\* bookIssues.slice(0, 10): the rows of the issue table that are rendered
IssueRows == 10
\* requests.slice(0, 5): the request cards that are rendered
RequestRows == 5

Books == 1..NumBooks
Issues == 1..NumIssues
Sessions == 1..NumSessions
\* run ids: one mount-effect run per session, then the handler invocations
MountRuns == 1..NumSessions
HandlerRuns == (NumSessions + 1)..(NumSessions + MaxRuns)
Runs == MountRuns \cup HandlerRuns

Requests == 1..NumRequests
Counselors == 1..NumCounselors

NoId == 0
Null == "null"
Today == "today"
Now == "now"

\* interface BookIssue: status
IssueStatus == {"requested", "issued", "returned", "overdue"}
\* interface CounselingRequest: status
RequestStatus == {"pending", "accepted", "completed", "cancelled"}

\* a property that an object does not have, and the element type React is
\* handed when the icon is one
Undefined == "undefined"
\* no badge has been rendered
NoBadge == [view |-> "none", status |-> Null, label |-> Undefined,
            icon |-> Undefined, style |-> Undefined]

\* a missing joined book (issue.book undefined)
NoBook == [id |-> NoId, total_copies |-> 0, available_copies |-> 0]
\* bookIssues.find(...) found nothing
NoIssue == [id |-> NoId, status |-> Null, return_date |-> Null,
            issued_by |-> NoId, book |-> NoBook]

VARIABLES
    dbBooks,      \* table books: id -> [total_copies, available_copies]
    dbIssues,     \* table book_issues: id -> [status, book_id, return_date, issued_by]
    lib,          \* session -> React state of a LibrarianDashboard
    run,          \* run id -> the position and locals of one async invocation
    faults,       \* number of backend calls that have answered with an error
    clicks,       \* number of button clicks the users will still make
    decremented,  \* history: issue -> number of times an approve of it lowered available_copies
    dbRequests,   \* table counseling_requests: id -> [status, counselor_id, completed_at]
    cns,          \* session -> React state of a CounselorDashboard and its signed-in user
    crun,         \* run id -> the position and locals of one async invocation (counselor)
    badge         \* the status badge that was rendered last

libVars == <<dbBooks, dbIssues, lib, run, decremented>>
cnsVars == <<dbRequests, cns, crun>>
vars == <<dbBooks, dbIssues, lib, run, faults, clicks, decremented,
          dbRequests, cns, crun, badge>>

\* ---------------------------------------------------------------- queries

RECURSIVE SumSeq(_, _)
\* booksData.reduce((sum, book) => sum + f(book), 0), left to right
SumSeq(s, field) ==
    IF s = <<>> THEN 0
    ELSE SumSeq(SubSeq(s, 1, Len(s) - 1), field) + s[Len(s)][field]

RECURSIVE FilterSeqLeading(_, _)
\* a variant of FilterSeq that stops at the first row of another status
FilterSeqLeading(s, st) ==
    IF s = <<>> \/ Head(s).status # st THEN <<>>
    ELSE <<Head(s)>> \o FilterSeqLeading(Tail(s), st)

RECURSIVE FilterSeq(_, _)
\* issuesData.filter(issue => issue.status === st)
FilterSeq(s, st) ==
    IF s = <<>> THEN <<>>
    ELSE LET rest == FilterSeq(Tail(s), st)
         IN IF Head(s).status = st THEN <<Head(s)>> \o rest ELSE rest

\* supabase.from('books').select('*').order('title'): ids stand for the title order
BooksQuery ==
    [b \in Books |-> [id |-> b,
                      total_copies |-> dbBooks[b].total_copies,
                      available_copies |-> dbBooks[b].available_copies]]

\* the embedded relation book:books(*) of one issue row
JoinBook(bid) ==
    IF bid \in Books
    THEN [id |-> bid,
          total_copies |-> dbBooks[bid].total_copies,
          available_copies |-> dbBooks[bid].available_copies]
    ELSE NoBook

\* supabase.from('book_issues').select('*, book:books(*), ...').order('issued_date'):
\* issued_date is never written by this code, so ids stand for the date order
IssuesQuery ==
    [i \in Issues |-> [id |-> i,
                       status |-> dbIssues[i].status,
                       return_date |-> dbIssues[i].return_date,
                       issued_by |-> dbIssues[i].issued_by,
                       book |-> JoinBook(dbIssues[i].book_id)]]

\* a variant of LibraryStats whose availableBooks sums the total_copies
\* column
LibraryStatsOfTotals(booksData, issuesData) ==
    [totalBooks |-> SumSeq(booksData, "total_copies"),
     availableBooks |-> SumSeq(booksData, "total_copies"),
     issuedBooks |-> Len(FilterSeq(issuesData, "issued")),
     overdueBooks |-> Len(FilterSeq(issuesData, "overdue")),
     pendingRequests |-> Len(FilterSeq(issuesData, "requested"))]

\* the stats object built in loadLibraryData
LibraryStats(booksData, issuesData) ==
    [totalBooks |-> SumSeq(booksData, "total_copies"),
     availableBooks |-> SumSeq(booksData, "available_copies"),
     issuedBooks |-> Len(FilterSeq(issuesData, "issued")),
     overdueBooks |-> Len(FilterSeq(issuesData, "overdue")),
     pendingRequests |-> Len(FilterSeq(issuesData, "requested"))]

\* bookIssues.find(i => i.id === issueId): the first matching row
FindIssue(snap, issueId) ==
    LET hits == {k \in DOMAIN snap : snap[k].id = issueId}
    IN IF hits = {} THEN NoIssue
       ELSE snap[CHOOSE k \in hits : \A j \in hits : k <= j]

\* ------------------------------------------------------------------ state

Pending == [state |-> "pending", data |-> <<>>]
Failed == [state |-> "error", data |-> <<>>]
Ok(d) == [state |-> "ok", data |-> d]

\* useState initial values of LibrarianDashboard
LibInitial ==
    [books |-> <<>>, bookIssues |-> <<>>, loading |-> TRUE,
     stats |-> [totalBooks |-> 0, availableBooks |-> 0, issuedBooks |-> 0,
                overdueBooks |-> 0, pendingRequests |-> 0]]

\* useState initial values of CounselorDashboard, and useAuth()'s user
CnsInitial(user) ==
    [user |-> user, requests |-> <<>>, loading |-> TRUE,
     stats |-> [totalRequests |-> 0, pendingRequests |-> 0,
                activeRequests |-> 0, completedRequests |-> 0]]

\* a counselor run that has not been started
IdleCRun ==
    [kind |-> "none", session |-> NoId, pc |-> "idle", requestId |-> NoId,
     statusWrite |-> "none", load |-> "none", alert |-> "none"]

\* a run that has not been started.  A run's closure holds the bookIssues
\* array of the render it was started from; the handler reads it only through
\* bookIssues.find(i => i.id === issueId), whose result is kept as `issue`
IdleRun ==
    [kind |-> "none", session |-> NoId, pc |-> "idle", issueId |-> NoId,
     issue |-> NoIssue, booksRes |-> Pending, issuesRes |-> Pending,
     statusWrite |-> "none", inventoryWrite |-> "none", load |-> "none",
     alert |-> "none"]

\* useEffect(() => { loadLibraryData(); }, []): the load started on mount
MountRun(s) == [IdleRun EXCEPT !.kind = "mount", !.session = s, !.pc = "load"]

\* a finished run: its closure, what it wrote and what it told the user
Finished(rn, alert) ==
    [rn EXCEPT !.pc = "done", !.alert = alert,
               !.booksRes = Pending, !.issuesRes = Pending]

\* the books table: any stock that satisfies 0 <= available <= total
BookRows ==
    {bk \in [total_copies : 1..MaxCopies, available_copies : 0..MaxCopies] :
        bk.available_copies <= bk.total_copies}

\* the book_issues table: rows are created outside this code, in any status,
\* for any book or (a dangling reference) none; nobody has acted on them yet
IssueRowsOf(bookIds) ==
    [status : IssueStatus, book_id : bookIds, return_date : {Null},
     issued_by : {NoId}]

\* no counselor dashboard is open
NoCounselors ==
    /\ dbRequests = [q \in Requests |-> [status |-> "pending", counselor_id |-> 1,
                                         completed_at |-> Null]]
    /\ cns = [s \in Sessions |-> CnsInitial(NoId)]
    /\ crun = [r \in Runs |-> IdleCRun]

\* the librarian dashboards in `open` have just been mounted; the first load
\* of each is on its way
InitSessions(open) ==
    /\ lib = [s \in Sessions |-> LibInitial]
    /\ run = [r \in Runs |-> IF r \in open THEN MountRun(r) ELSE IdleRun]
    /\ faults = 0
    /\ badge = NoBadge
    /\ decremented = [i \in Issues |-> 0]
    /\ NoCounselors

\* breadth: every librarian dashboard open, any tables (the first issue is
\* for the first book), one click
InitLib ==
    /\ dbBooks \in [Books -> BookRows]
    /\ dbIssues \in [Issues -> IssueRowsOf(Books \cup {NoId})]
    /\ dbIssues[1].book_id = 1
    /\ InitSessions(MountRuns)
    /\ clicks = 1

\* concurrency: two librarian dashboards open, every issue requested for the
\* first book, which has any stock, two clicks
InitTwo ==
    /\ dbBooks \in [Books -> BookRows]
    /\ \A b \in Books \ {1} : dbBooks[b].available_copies = dbBooks[b].total_copies
                              /\ dbBooks[b].total_copies = MaxCopies
    /\ dbIssues = [i \in Issues |-> [status |-> "requested", book_id |-> 1,
                                     return_date |-> Null, issued_by |-> NoId]]
    /\ InitSessions({1, 2})
    /\ clicks = 2

\* history: one librarian dashboard open, every issue requested for the
\* first book, every copy available, all clicks
InitOne ==
    /\ dbBooks = [b \in Books |-> [total_copies |-> MaxCopies,
                                   available_copies |-> MaxCopies]]
    /\ dbIssues = [i \in Issues |-> [status |-> "requested", book_id |-> 1,
                                     return_date |-> Null, issued_by |-> NoId]]
    /\ InitSessions({1})
    /\ clicks = MaxRuns

\* scenario: one librarian dashboard open, one book with ScenarioCopies
\* copies, all available, one requested issue for it (the other issues are
\* closed and the other books untouched), two clicks
InitScenario ==
    /\ dbBooks = [b \in Books |->
                     IF b = 1 THEN [total_copies |-> ScenarioCopies,
                                    available_copies |-> ScenarioCopies]
                     ELSE [total_copies |-> MaxCopies,
                           available_copies |-> MaxCopies]]
    /\ dbIssues = [i \in Issues |->
                      IF i = 1 THEN [status |-> "requested", book_id |-> 1,
                                     return_date |-> Null, issued_by |-> NoId]
                      ELSE [status |-> "returned", book_id |-> NoId,
                            return_date |-> Null, issued_by |-> NoId]]
    /\ InitSessions({1})
    /\ clicks = 2

\* frame: one librarian dashboard open, book 1 with ScenarioCopies copies of
\* which any number is available, its first issue requested or issued, the
\* other issues requested for book 1 or for no book, two clicks
InitFrame ==
    /\ \E n \in 0..ScenarioCopies :
          dbBooks = [b \in Books |->
                        IF b = 1 THEN [total_copies |-> ScenarioCopies,
                                       available_copies |-> n]
                        ELSE [total_copies |-> MaxCopies,
                              available_copies |-> MaxCopies]]
    /\ dbIssues \in [Issues -> IssueRowsOf({1, NoId})]
    /\ dbIssues[1].book_id = 1
    /\ dbIssues[1].status \in {"requested", "issued"}
    /\ \A i \in Issues \ {1} : dbIssues[i].status = "requested"
    /\ InitSessions({1})
    /\ clicks = 2

\* ------------------------------------------------- LibrarianDashboard: UI

\* a variant of ActionOffered without .slice(0, 10)
ActionOfferedEveryRow(s, k, action) ==
    /\ ~lib[s].loading
    /\ k \in DOMAIN lib[s].bookIssues
    /\ lib[s].bookIssues[k].status =
           (IF action = "approve" THEN "requested" ELSE "issued")

\* the button rendered for row k of bookIssues.slice(0, 10): Approve on a
\* requested row, Mark Returned on an issued row; nothing while loading
ActionOffered(s, k, action) ==
    /\ ~lib[s].loading
    /\ k \in DOMAIN lib[s].bookIssues
    /\ k <= IssueRows
    /\ lib[s].bookIssues[k].status =
           (IF action = "approve" THEN "requested" ELSE "issued")

\* ------------------------------------------------------------ the backend

\* a backend call answers with an error ({ data: null, error }); the call
\* has no effect on the tables
Fault ==
    /\ faults < MaxFaults
    /\ faults' = faults + 1

\* a backend call answers without error
NoFault == UNCHANGED faults

\* ------------------------------------------- handleIssueAction(issueId, action)

\* a variant of UpdateData whose return leaves return_date alone
UpdateDataNoReturnDate(row, action, user) ==
    IF action = "approve"
    THEN [row EXCEPT !.status = "issued", !.issued_by = user]
    ELSE [row EXCEPT !.status = "returned"]

\* updateData applied to the row with the given id; user?.id is the session's user
UpdateData(row, action, user) ==
    IF action = "approve"
    THEN [row EXCEPT !.status = "issued", !.issued_by = user]
    ELSE [row EXCEPT !.status = "returned", !.return_date = Today]

\* a variant of NewAvailable that would not lose updates: the new count is
\* computed from the row in the table, not from the row in the closure
NewAvailableFromTable(issue, action) ==
    IF action = "approve"
    THEN dbBooks[issue.book.id].available_copies - 1
    ELSE dbBooks[issue.book.id].available_copies + 1

\* issue.book.available_copies - 1 (approve) or + 1 (return), from the
\* bookIssues array the handler closed over
NewAvailable(issue, action) ==
    IF action = "approve"
    THEN issue.book.available_copies - 1
    ELSE issue.book.available_copies + 1

\* a variant of StatusErrorAlert: a catch block that only logs
StatusErrorLogged == "none"

\* the alert in the catch block after `if (error) throw error`
StatusErrorAlert == "failure"

\* a button click: the handler runs up to its first await (the book_issues
\* update) with the session's rendered bookIssues in its closure
Invoke(r, s, k, action) ==
    /\ run[r].pc = "idle"
    /\ \A q \in HandlerRuns : q < r => run[q].pc # "idle"
    /\ clicks > 0
    /\ ActionOffered(s, k, action)
    /\ LET id == lib[s].bookIssues[k].id
       IN run' = [run EXCEPT
                     ![r] = [IdleRun EXCEPT
                                !.kind = action, !.session = s, !.pc = "status",
                                !.issueId = id,
                                !.issue = FindIssue(lib[s].bookIssues, id)]]
    /\ clicks' = clicks - 1
    /\ UNCHANGED <<dbBooks, dbIssues, lib, faults, decremented, cnsVars, badge>>

\* the book_issues update answers without error; the handler goes on to the
\* books update when the closed-over row has a joined book, else to the reload
StatusWriteOk(r) ==
    /\ run[r].pc = "status"
    /\ dbIssues' = [dbIssues EXCEPT
                       ![run[r].issueId] = UpdateData(@, run[r].kind, run[r].session)]
    /\ run' = [run EXCEPT
                  ![r].statusWrite = "ok",
                  ![r].pc = IF run[r].issue.book.id # NoId THEN "inventory" ELSE "load",
                  ![r].inventoryWrite =
                      IF run[r].issue.book.id # NoId THEN "none" ELSE "skipped"]
    /\ UNCHANGED <<dbBooks, lib, faults, clicks, decremented, cnsVars, badge>>

\* a variant of StatusWriteError without `if (error) throw error`: the
\* handler goes on as after a good update
StatusWriteErrorIgnored(r) ==
    /\ run[r].pc = "status"
    /\ Fault
    /\ run' = [run EXCEPT
                  ![r].statusWrite = "error",
                  ![r].pc = IF run[r].issue.book.id # NoId THEN "inventory" ELSE "load",
                  ![r].inventoryWrite =
                      IF run[r].issue.book.id # NoId THEN "none" ELSE "skipped"]
    /\ UNCHANGED <<dbBooks, dbIssues, lib, clicks, decremented, cnsVars, badge>>

\* the book_issues update answers with an error: throw, catch, failure alert
StatusWriteError(r) ==
    /\ run[r].pc = "status"
    /\ Fault
    /\ run' = [run EXCEPT
                  ![r] = Finished([run[r] EXCEPT !.statusWrite = "error"],
                                  StatusErrorAlert)]
    /\ UNCHANGED <<dbBooks, dbIssues, lib, clicks, decremented, cnsVars, badge>>

\* a variant of InventoryWriteOk without .eq('id', issue.book.id): every
\* book gets the new count
InventoryWriteOkEveryBook(r) ==
    /\ run[r].pc = "inventory"
    /\ LET new == NewAvailable(run[r].issue, run[r].kind)
       IN dbBooks' = [b \in Books |-> [dbBooks[b] EXCEPT !.available_copies = new]]
    /\ run' = [run EXCEPT ![r].inventoryWrite = "ok", ![r].pc = "load"]
    /\ UNCHANGED <<dbIssues, lib, faults, clicks, decremented, cnsVars, badge>>

\* the books update is applied with the value computed from the closure
InventoryWriteOk(r) ==
    /\ run[r].pc = "inventory"
    /\ LET bid == run[r].issue.book.id
           new == NewAvailable(run[r].issue, run[r].kind)
       IN /\ dbBooks' = [dbBooks EXCEPT ![bid].available_copies = new]
          /\ decremented' =
                 IF run[r].kind = "approve" /\ new < dbBooks[bid].available_copies
                 THEN [decremented EXCEPT ![run[r].issueId] = @ + 1]
                 ELSE decremented
    /\ run' = [run EXCEPT ![r].inventoryWrite = "ok", ![r].pc = "load"]
    /\ UNCHANGED <<dbIssues, lib, faults, clicks, cnsVars, badge>>

\* a variant of InventoryWriteError that compensates: after a failed books
\* update the closure's status is written back to the issue
InventoryWriteErrorRollback(r) ==
    /\ run[r].pc = "inventory"
    /\ Fault
    /\ dbIssues' = [dbIssues EXCEPT ![run[r].issueId].status = run[r].issue.status]
    /\ run' = [run EXCEPT ![r].inventoryWrite = "error", ![r].pc = "load"]
    /\ UNCHANGED <<dbBooks, lib, clicks, decremented, cnsVars, badge>>

\* the books update answers with an error; the handler does not read the
\* result of that await, so it goes on to the reload
InventoryWriteError(r) ==
    /\ run[r].pc = "inventory"
    /\ Fault
    /\ run' = [run EXCEPT ![r].inventoryWrite = "error", ![r].pc = "load"]
    /\ UNCHANGED <<dbBooks, dbIssues, lib, clicks, decremented, cnsVars, badge>>

\* ------------------------------------------------------- loadLibraryData()

\* a variant of LoadResult that sets each part of the state as soon as its
\* own query is known to be good
LoadResultPartial(state, booksRes, issuesRes) ==
    IF booksRes.state = "error" THEN [state EXCEPT !.loading = FALSE]
    ELSE IF issuesRes.state = "error"
         THEN [state EXCEPT !.books = booksRes.data, !.loading = FALSE]
         ELSE [books |-> booksRes.data,
               bookIssues |-> issuesRes.data,
               stats |-> LibraryStats(booksRes.data, issuesRes.data),
               loading |-> FALSE]

\* the React state after the try / catch / finally of loadLibraryData
LoadResult(state, booksRes, issuesRes) ==
    IF booksRes.state = "error" \/ issuesRes.state = "error"
    THEN [state EXCEPT !.loading = FALSE]
    ELSE [books |-> booksRes.data,
          bookIssues |-> issuesRes.data,
          stats |-> LibraryStats(booksRes.data, issuesRes.data),
          loading |-> FALSE]

\* which way the loader's try block ended: "error" when a query's error was
\* thrown and caught (console.error), "ok" when the state was set
LoadOutcome(booksRes, issuesRes) ==
    IF booksRes.state = "error" \/ issuesRes.state = "error" THEN "error" ELSE "ok"

\* the alert after `await loadLibraryData()`: the loader catches its own
\* errors, so the handler cannot tell a failed reload from a good one
AfterLoadAlert(kind, booksRes, issuesRes) ==
    IF kind = "mount" THEN "none" ELSE "success"

\* Promise.all has both answers: the rest of loadLibraryData and, in a
\* handler, the success alert, run without another await
LoadCommit(r, booksRes, issuesRes) ==
    /\ lib' = [lib EXCEPT ![run[r].session] = LoadResult(@, booksRes, issuesRes)]
    /\ run' = [run EXCEPT
                  ![r] = Finished([run[r] EXCEPT
                                      !.load = LoadOutcome(booksRes, issuesRes)],
                                  AfterLoadAlert(run[r].kind, booksRes, issuesRes))]

\* one query of Promise.all is served by the backend while the other is
\* still on its way
LoadFirst(r) ==
    /\ run[r].pc = "load"
    /\ run[r].booksRes.state = "pending"
    /\ run[r].issuesRes.state = "pending"
    /\ \/ NoFault /\ run' = [run EXCEPT ![r].booksRes = Ok(BooksQuery)]
       \/ Fault /\ run' = [run EXCEPT ![r].booksRes = Failed]
       \/ NoFault /\ run' = [run EXCEPT ![r].issuesRes = Ok(IssuesQuery)]
       \/ Fault /\ run' = [run EXCEPT ![r].issuesRes = Failed]
    /\ UNCHANGED <<dbBooks, dbIssues, lib, clicks, decremented, cnsVars, badge>>

\* the other query is served: Promise.all settles and the loader finishes
LoadSecond(r) ==
    /\ run[r].pc = "load"
    /\ \/ /\ run[r].booksRes.state # "pending"
          /\ \/ NoFault /\ LoadCommit(r, run[r].booksRes, Ok(IssuesQuery))
             \/ Fault /\ LoadCommit(r, run[r].booksRes, Failed)
       \/ /\ run[r].issuesRes.state # "pending"
          /\ \/ NoFault /\ LoadCommit(r, Ok(BooksQuery), run[r].issuesRes)
             \/ Fault /\ LoadCommit(r, Failed, run[r].issuesRes)
    /\ UNCHANGED <<dbBooks, dbIssues, clicks, decremented, cnsVars, badge>>

NextLib ==
    \/ \E r \in HandlerRuns, s \in Sessions, k \in 1..NumIssues,
          action \in {"approve", "return"} : Invoke(r, s, k, action)
    \/ \E r \in HandlerRuns : StatusWriteOk(r)
    \/ \E r \in HandlerRuns : StatusWriteError(r)
    \/ \E r \in HandlerRuns : InventoryWriteOk(r)
    \/ \E r \in HandlerRuns : InventoryWriteError(r)
    \/ \E r \in Runs : LoadFirst(r)
    \/ \E r \in Runs : LoadSecond(r)

SpecLib == InitLib /\ [][NextLib]_vars

SpecTwo == InitTwo /\ [][NextLib]_vars

SpecOne == InitOne /\ [][NextLib]_vars

SpecScenario == InitScenario /\ [][NextLib]_vars

\* ---------------------------------------------------- CounselorDashboard

RECURSIVE RequestsFrom(_, _)
\* the rows from id q on whose counselor_id is `user`, in id order
RequestsFrom(q, user) ==
    IF q > NumRequests THEN <<>>
    ELSE (IF dbRequests[q].counselor_id = user
          THEN <<[id |-> q, status |-> dbRequests[q].status,
                  counselor_id |-> dbRequests[q].counselor_id,
                  completed_at |-> dbRequests[q].completed_at]>>
          ELSE <<>>) \o RequestsFrom(q + 1, user)

\* a variant of RequestsQuery without .eq('counselor_id', user.id)
RequestsQueryAll(user) ==
    [q \in 1..NumRequests |->
        [id |-> q, status |-> dbRequests[q].status,
         counselor_id |-> dbRequests[q].counselor_id,
         completed_at |-> dbRequests[q].completed_at]]

\* supabase.from('counseling_requests').select(...).eq('counselor_id', user.id)
\* .order('requested_at'): requested_at is never written by this code, so ids
\* stand for the date order
RequestsQuery(user) == RequestsFrom(1, user)

\* the stats object built in loadCounselingRequests
CounselorStats(requestsData) ==
    [totalRequests |-> Len(requestsData),
     pendingRequests |-> Len(FilterSeq(requestsData, "pending")),
     activeRequests |-> Len(FilterSeq(requestsData, "accepted")),
     completedRequests |-> Len(FilterSeq(requestsData, "completed"))]

\* the button rendered on card k of requests.slice(0, 5): Accept on a pending
\* request, Mark Complete on an accepted one; nothing while loading
RequestOffered(s, k, action) ==
    /\ ~cns[s].loading
    /\ k \in DOMAIN cns[s].requests
    /\ k <= RequestRows
    /\ cns[s].requests[k].status =
           (IF action = "accept" THEN "pending" ELSE "accepted")

\* a variant of RequestUpdate whose second branch closes the request as
\* cancelled
RequestUpdateCancels(row, action) ==
    IF action = "accept"
    THEN [row EXCEPT !.status = "accepted"]
    ELSE [row EXCEPT !.status = "cancelled", !.completed_at = Now]

\* a variant of RequestUpdate without `updateData.completed_at = ...`
RequestUpdateNoTimestamp(row, action) ==
    IF action = "accept"
    THEN [row EXCEPT !.status = "accepted"]
    ELSE [row EXCEPT !.status = "completed"]

\* updateData of handleRequestAction applied to the row with the given id
RequestUpdate(row, action) ==
    IF action = "accept"
    THEN [row EXCEPT !.status = "accepted"]
    ELSE [row EXCEPT !.status = "completed", !.completed_at = Now]

\* the mount effect's call of loadCounselingRequests: `if (!user?.id) return`
\* ends it at once, else the query is on its way
CMountRun(s, user) ==
    [IdleCRun EXCEPT !.kind = "mount", !.session = s,
                     !.pc = IF user = NoId THEN "done" ELSE "load"]

\* a finished counselor run: what it wrote and what it told the user
CFinished(rn, alert) == [rn EXCEPT !.pc = "done", !.alert = alert]

\* a button click: handleRequestAction runs up to its await of the update
CInvoke(r, s, k, action) ==
    /\ crun[r].pc = "idle"
    /\ \A q \in HandlerRuns : q < r => crun[q].pc # "idle"
    /\ clicks > 0
    /\ RequestOffered(s, k, action)
    /\ crun' = [crun EXCEPT
                   ![r] = [IdleCRun EXCEPT !.kind = action, !.session = s,
                                           !.pc = "status",
                                           !.requestId = cns[s].requests[k].id]]
    /\ clicks' = clicks - 1
    /\ UNCHANGED <<dbRequests, cns, faults, libVars, badge>>

\* the counseling_requests update answers without error; the handler calls
\* loadCounselingRequests, which returns at once when there is no user
CStatusWriteOk(r) ==
    /\ crun[r].pc = "status"
    /\ dbRequests' = [dbRequests EXCEPT
                         ![crun[r].requestId] = RequestUpdate(@, crun[r].kind)]
    /\ crun' = [crun EXCEPT
                   ![r] = IF cns[crun[r].session].user = NoId
                          THEN CFinished([@ EXCEPT !.statusWrite = "ok"], "success")
                          ELSE [@ EXCEPT !.statusWrite = "ok", !.pc = "load"]]
    /\ UNCHANGED <<cns, faults, clicks, libVars, badge>>

\* the update answers with an error: throw, catch, failure alert
CStatusWriteError(r) ==
    /\ crun[r].pc = "status"
    /\ Fault
    /\ crun' = [crun EXCEPT
                   ![r] = CFinished([@ EXCEPT !.statusWrite = "error"],
                                    StatusErrorAlert)]
    /\ UNCHANGED <<dbRequests, cns, clicks, libVars, badge>>

\* a variant of CLoadResult without setStats
CLoadResultRowsOnly(state, res) ==
    IF res.state = "error"
    THEN [state EXCEPT !.loading = FALSE]
    ELSE [state EXCEPT !.requests = res.data, !.loading = FALSE]

\* the React state after the try / catch / finally of loadCounselingRequests
CLoadResult(state, res) ==
    IF res.state = "error"
    THEN [state EXCEPT !.loading = FALSE]
    ELSE [state EXCEPT !.requests = res.data,
                       !.stats = CounselorStats(res.data),
                       !.loading = FALSE]

\* the alert after `await loadCounselingRequests()`
CAfterLoadAlert(kind, res) ==
    IF kind = "mount" THEN "none" ELSE "success"

\* the query answers: the rest of loadCounselingRequests and, in a handler,
\* the success alert, run without another await
CLoadCommit(r, res) ==
    /\ cns' = [cns EXCEPT ![crun[r].session] = CLoadResult(@, res)]
    /\ crun' = [crun EXCEPT
                   ![r] = CFinished([@ EXCEPT !.load = res.state],
                                    CAfterLoadAlert(crun[r].kind, res))]

CLoad(r) ==
    /\ crun[r].pc = "load"
    /\ \/ NoFault /\ CLoadCommit(r, Ok(RequestsQuery(cns[crun[r].session].user)))
       \/ Fault /\ CLoadCommit(r, Failed)
    /\ UNCHANGED <<dbRequests, clicks, libVars, badge>>

\* no librarian dashboard is open
NoLibrarians ==
    /\ dbBooks = [b \in Books |-> [total_copies |-> 1, available_copies |-> 1]]
    /\ dbIssues = [i \in Issues |-> [status |-> "returned", book_id |-> NoId,
                                     return_date |-> Null, issued_by |-> NoId]]
    /\ lib = [s \in Sessions |-> LibInitial]
    /\ run = [r \in Runs |-> IdleRun]
    /\ decremented = [i \in Issues |-> 0]

\* the counseling_requests table: rows are created outside this code, in any
\* status, each for one counselor; none has been completed through this code.
\* Every dashboard has just been mounted, its user signed in or not yet known
InitCns ==
    /\ dbRequests \in [Requests -> [status : RequestStatus,
                                    counselor_id : Counselors,
                                    completed_at : {Null}]]
    /\ \E users \in [Sessions -> Counselors \cup {NoId}] :
          /\ cns = [s \in Sessions |-> CnsInitial(users[s])]
          /\ crun = [r \in Runs |-> IF r \in MountRuns
                                    THEN CMountRun(r, users[r]) ELSE IdleCRun]
    /\ faults = 0
    /\ badge = NoBadge
    /\ clicks = MaxRuns
    /\ NoLibrarians

\* two dashboards: the first is open for counselor 1, who has the first
\* request, the second for any counselor or for nobody yet; the other
\* requests are in any status for any counselor; two clicks
InitCnsTwo ==
    /\ dbRequests \in [Requests -> [status : RequestStatus,
                                    counselor_id : Counselors,
                                    completed_at : {Null}]]
    /\ dbRequests[1].counselor_id = 1
    /\ \E user2 \in Counselors \cup {NoId} :
          LET users == [s \in Sessions |-> IF s = 1 THEN 1
                                           ELSE IF s = 2 THEN user2 ELSE NoId]
          IN /\ cns = [s \in Sessions |-> CnsInitial(users[s])]
             /\ crun = [r \in Runs |-> IF r \in {1, 2}
                                       THEN CMountRun(r, users[r]) ELSE IdleCRun]
    /\ faults = 0
    /\ badge = NoBadge
    /\ clicks = 2
    /\ NoLibrarians

NextCns ==
    \/ \E r \in HandlerRuns, s \in Sessions, k \in 1..NumRequests,
          action \in {"accept", "complete"} : CInvoke(r, s, k, action)
    \/ \E r \in HandlerRuns : CStatusWriteOk(r)
    \/ \E r \in HandlerRuns : CStatusWriteError(r)
    \/ \E r \in Runs : CLoad(r)

SpecCns == InitCns /\ [][NextCns]_vars

SpecCnsTwo == InitCnsTwo /\ [][NextCns]_vars

\* ------------------------------------------------- the backend answers

\* the backend answers the call librarian run r is waiting for
Answer(r) ==
    \/ StatusWriteOk(r) \/ StatusWriteError(r)
    \/ InventoryWriteOk(r) \/ InventoryWriteError(r)
    \/ LoadFirst(r) \/ LoadSecond(r)

\* the backend answers the call counselor run r is waiting for
CAnswer(r) == CStatusWriteOk(r) \/ CStatusWriteError(r) \/ CLoad(r)

\* one counselor dashboard open for counselor 1, whose requests are all
\* pending, two clicks
InitCnsOne ==
    /\ dbRequests = [q \in Requests |-> [status |-> "pending", counselor_id |-> 1,
                                         completed_at |-> Null]]
    /\ cns = [s \in Sessions |-> CnsInitial(IF s = 1 THEN 1 ELSE NoId)]
    /\ crun = [r \in Runs |-> IF r = 1 THEN CMountRun(1, 1) ELSE IdleCRun]
    /\ faults = 0
    /\ badge = NoBadge
    /\ clicks = 2
    /\ NoLibrarians

\* either the librarian scenario or the one counselor dashboard
InitLive == InitScenario \/ InitCnsOne

NextLive == NextLib \/ NextCns

\* either the librarian dashboard of InitFrame or the two counselor dashboards
InitBoth == InitFrame \/ InitCnsTwo

SpecBoth == InitBoth /\ [][NextLive]_vars

\* every backend call a run awaits is answered in the end
SpecLive ==
    /\ InitLive
    /\ [][NextLive]_vars
    /\ \A r \in Runs : WF_vars(Answer(r)) /\ WF_vars(CAnswer(r))

\* useAuth() hands the dashboard of session s a user it did not have: the
\* effect's dependency [user] changes and loadCounselingRequests is called
\* again (the call made on mount returned at once)
SignIn(s, user) ==
    /\ cns[s].user = NoId
    /\ crun[s].kind = "mount"
    /\ crun[s].pc = "done"
    /\ cns' = [cns EXCEPT ![s].user = user]
    /\ crun' = [crun EXCEPT ![s] = CMountRun(s, user)]
    /\ UNCHANGED <<dbRequests, faults, clicks, libVars, badge>>

NextLoad ==
    \/ NextLive
    \/ \E s \in Sessions, user \in Counselors : SignIn(s, user)

\* every backend call a run awaits is answered in the end; whether a user
\* signs in is up to the user
SpecLoad ==
    /\ InitBoth
    /\ [][NextLoad]_vars
    /\ \A r \in Runs : WF_vars(Answer(r)) /\ WF_vars(CAnswer(r))

\* ------------------------------------------------------ the stats reducers

\* a snapshot of book_issues rows with the given statuses, in id order
IssuesWith(statuses) ==
    [k \in DOMAIN statuses |->
        [id |-> k, status |-> statuses[k], return_date |-> Null,
         issued_by |-> NoId, book |-> NoBook]]

\* a snapshot of counseling_requests rows with the given statuses
RequestsWith(statuses) ==
    [k \in DOMAIN statuses |->
        [id |-> k, status |-> statuses[k], counselor_id |-> 1,
         completed_at |-> Null]]

\* a snapshot of books rows with the given stock
BooksWith(stock) ==
    [k \in DOMAIN stock |->
        [id |-> k, total_copies |-> stock[k].total_copies,
         available_copies |-> stock[k].available_copies]]

\* three issued rows, one requested and one overdue
ExampleStatuses == <<"issued", "requested", "issued", "overdue", "issued">>

\* the same rows with rows k and k + 1 in the other order
Swap(s, k) ==
    [i \in DOMAIN s |-> IF i = k THEN s[k + 1] ELSE IF i = k + 1 THEN s[k] ELSE s[i]]

\* nothing is running and the tables are not looked at
NoRuns ==
    /\ dbBooks = [b \in Books |-> [total_copies |-> 1, available_copies |-> 1]]
    /\ dbIssues = [i \in Issues |-> [status |-> "returned", book_id |-> NoId,
                                     return_date |-> Null, issued_by |-> NoId]]
    /\ dbRequests = [q \in Requests |-> [status |-> "pending", counselor_id |-> 1,
                                         completed_at |-> Null]]
    /\ run = [r \in Runs |-> IdleRun]
    /\ crun = [r \in Runs |-> IdleCRun]
    /\ decremented = [i \in Issues |-> 0]
    /\ faults = 0
    /\ badge = NoBadge

\* the first librarian dashboard has loaded the given rows
LibraryLoaded(booksData, issuesData) ==
    lib = [s \in Sessions |->
              IF s = 1 THEN LoadResult(LibInitial, Ok(booksData), Ok(issuesData))
              ELSE LibInitial]

\* the first counselor dashboard has loaded the given rows
CounselorLoaded(requestsData) ==
    cns = [s \in Sessions |->
              IF s = 1 THEN CLoadResult(CnsInitial(1), Ok(requestsData))
              ELSE CnsInitial(NoId)]

\* the reducers' inputs: any book_issues rows (up to MaxRows, or the five of
\* the example), or any books rows, or any counseling_requests rows
InitStats ==
    /\ NoRuns
    /\ clicks = 0
    /\ \/ /\ \E n \in 0..MaxRows : \E statuses \in [1..n -> IssueStatus] :
                LibraryLoaded(<<>>, IssuesWith(statuses))
          /\ CounselorLoaded(<<>>)
       \/ /\ LibraryLoaded(<<>>, IssuesWith(ExampleStatuses))
          /\ CounselorLoaded(<<>>)
       \/ /\ \E n \in 0..NumBooks : \E stock \in [1..n -> BookRows] :
                LibraryLoaded(BooksWith(stock), <<>>)
          /\ CounselorLoaded(<<>>)
       \/ /\ \E n \in 0..MaxRows : \E statuses \in [1..n -> RequestStatus] :
                CounselorLoaded(RequestsWith(statuses))
          /\ LibraryLoaded(<<>>, <<>>)

\* the book_issues query answers with the same rows in another order and
\* loadLibraryData reduces them
ReorderIssues(k) ==
    /\ k \in 1..(Len(lib[1].bookIssues) - 1)
    /\ lib' = [lib EXCEPT
                  ![1] = LoadResult(@, Ok(lib[1].books), Ok(Swap(lib[1].bookIssues, k)))]
    /\ UNCHANGED <<dbBooks, dbIssues, run, faults, clicks, decremented, cnsVars, badge>>

\* the books query answers with the same rows in another order
ReorderBooks(k) ==
    /\ k \in 1..(Len(lib[1].books) - 1)
    /\ lib' = [lib EXCEPT
                  ![1] = LoadResult(@, Ok(Swap(lib[1].books, k)), Ok(lib[1].bookIssues))]
    /\ UNCHANGED <<dbBooks, dbIssues, run, faults, clicks, decremented, cnsVars, badge>>

\* the counseling_requests query answers with the same rows in another
\* order and loadCounselingRequests reduces them
ReorderRequests(k) ==
    /\ k \in 1..(Len(cns[1].requests) - 1)
    /\ cns' = [cns EXCEPT ![1] = CLoadResult(@, Ok(Swap(cns[1].requests, k)))]
    /\ UNCHANGED <<dbRequests, crun, faults, clicks, libVars, badge>>

NextStats ==
    \/ \E k \in DOMAIN lib[1].bookIssues : ReorderIssues(k)
    \/ \E k \in DOMAIN lib[1].books : ReorderBooks(k)
    \/ \E k \in DOMAIN cns[1].requests : ReorderRequests(k)

SpecStats == InitStats /\ [][NextStats]_vars

\* --------------------------------------------------------- getStatusBadge

\* a status value that is in neither interface
ForeignStatus == "archived"

\* `styles` of the librarian's getStatusBadge
LibStyles ==
    [requested |-> "bg-yellow-100 text-yellow-800 border-yellow-200",
     issued |-> "bg-blue-100 text-blue-800 border-blue-200",
     returned |-> "bg-green-100 text-green-800 border-green-200",
     overdue |-> "bg-red-100 text-red-800 border-red-200"]

\* a variant of LibIcons without the entry for overdue
LibIconsNoOverdue ==
    [requested |-> "Clock", issued |-> "BookOpen", returned |-> "CheckCircle"]

\* `icons` of the librarian's getStatusBadge
LibIcons ==
    [requested |-> "Clock", issued |-> "BookOpen", returned |-> "CheckCircle",
     overdue |-> "AlertTriangle"]

\* `styles` of the counselor's getStatusBadge
CnsStyles ==
    [pending |-> "bg-yellow-100 text-yellow-800 border-yellow-200",
     accepted |-> "bg-blue-100 text-blue-800 border-blue-200",
     completed |-> "bg-green-100 text-green-800 border-green-200",
     cancelled |-> "bg-red-100 text-red-800 border-red-200"]

\* `icons` of the counselor's getStatusBadge
CnsIcons ==
    [pending |-> "Clock", accepted |-> "MessageCircle",
     completed |-> "CheckCircle", cancelled |-> "Clock"]

\* map[key as keyof typeof map]: the entry, or undefined when there is none
Lookup(map, key) == IF key \in DOMAIN map THEN map[key] ELSE Undefined

\* status.charAt(0).toUpperCase() + status.slice(1), for the words that occur
Capitalize(status) ==
    [requested |-> "Requested", issued |-> "Issued", returned |-> "Returned",
     overdue |-> "Overdue", pending |-> "Pending", accepted |-> "Accepted",
     completed |-> "Completed", cancelled |-> "Cancelled",
     archived |-> "Archived"][status]

\* the span returned by the librarian's getStatusBadge(status)
LibStatusBadge(status) ==
    [view |-> "librarian", status |-> status, label |-> Capitalize(status),
     icon |-> Lookup(LibIcons, status), style |-> Lookup(LibStyles, status)]

\* the span returned by the counselor's getStatusBadge(status)
CnsStatusBadge(status) ==
    [view |-> "counselor", status |-> status, label |-> Capitalize(status),
     icon |-> Lookup(CnsIcons, status), style |-> Lookup(CnsStyles, status)]

\* the badge's inputs: a dashboard has loaded rows whose status is any value
\* of the interface or one that is not in it
InitBadge ==
    /\ NoRuns
    /\ clicks = 0
    /\ \/ /\ \E n \in 0..NumIssues :
                \E statuses \in [1..n -> IssueStatus \cup {ForeignStatus}] :
                   LibraryLoaded(<<>>, IssuesWith(statuses))
          /\ CounselorLoaded(<<>>)
       \/ /\ \E n \in 0..NumRequests :
                \E statuses \in [1..n -> RequestStatus \cup {ForeignStatus}] :
                   CounselorLoaded(RequestsWith(statuses))
          /\ LibraryLoaded(<<>>, <<>>)

\* row k of bookIssues.slice(0, 10) is rendered: {getStatusBadge(issue.status)}
RenderIssue(k) ==
    /\ ~lib[1].loading
    /\ k \in DOMAIN lib[1].bookIssues
    /\ k <= IssueRows
    /\ badge' = LibStatusBadge(lib[1].bookIssues[k].status)
    /\ UNCHANGED <<faults, clicks, libVars, cnsVars>>

\* card k of requests.slice(0, 5) is rendered: {getStatusBadge(request.status)}
RenderRequest(k) ==
    /\ ~cns[1].loading
    /\ k \in DOMAIN cns[1].requests
    /\ k <= RequestRows
    /\ badge' = CnsStatusBadge(cns[1].requests[k].status)
    /\ UNCHANGED <<faults, clicks, libVars, cnsVars>>

NextBadge ==
    \/ \E k \in DOMAIN lib[1].bookIssues : RenderIssue(k)
    \/ \E k \in DOMAIN cns[1].requests : RenderRequest(k)

SpecBadge == InitBadge /\ [][NextBadge]_vars

\* ------------------------------------------------------ the rendered rows

\* n statuses: st1 at place j and st2 everywhere else
OneOdd(n, j, st1, st2) == [k \in 1..n |-> IF k = j THEN st1 ELSE st2]

\* a dashboard has loaded up to one row more than it renders; one click
InitRows ==
    /\ NoRuns
    /\ clicks = 1
    /\ \/ /\ \E n \in 0..(IssueRows + 1) : \E j \in 1..(IssueRows + 1) :
                \E st1, st2 \in IssueStatus :
                   LibraryLoaded(<<>>, IssuesWith(OneOdd(n, j, st1, st2)))
          /\ CounselorLoaded(<<>>)
       \/ /\ \E n \in 0..(RequestRows + 1) : \E j \in 1..(RequestRows + 1) :
                \E st1, st2 \in RequestStatus :
                   CounselorLoaded(RequestsWith(OneOdd(n, j, st1, st2)))
          /\ LibraryLoaded(<<>>, <<>>)

\* a click on a button of the first dashboard
NextRows ==
    \/ \E r \in HandlerRuns, k \in DOMAIN lib[1].bookIssues,
          action \in {"approve", "return"} : Invoke(r, 1, k, action)
    \/ \E r \in HandlerRuns, k \in DOMAIN cns[1].requests,
          action \in {"accept", "complete"} : CInvoke(r, 1, k, action)

SpecRows == InitRows /\ [][NextRows]_vars

\* ================================================================ claims

RECURSIVE StockSum(_, _)
\* the sum of a column of the books table over the books 1..b
StockSum(b, field) ==
    IF b = 0 THEN 0 ELSE StockSum(b - 1, field) + dbBooks[b][field]

\* run r takes a step
Steps(r) == run'[r] # run[r]

\* run r's book_issues update is answered in this step
StatusAnswered(r) == run[r].pc = "status" /\ Steps(r)

\* run r's books update is answered in this step
InventoryAnswered(r) == run[r].pc = "inventory" /\ Steps(r)

\* C1: for every book, 0 <= available_copies <= total_copies in every
\* backend state reached by approve and return actions
C1_StockWithinBounds ==
    \A b \in Books :
        /\ 0 <= dbBooks[b].available_copies
        /\ dbBooks[b].available_copies <= dbBooks[b].total_copies

\* the step C2 speaks of: the status write of an approve is answered while
\* the issue is requested and its book has no available copy
C2_OutOfStockStep ==
    \A r \in HandlerRuns :
        LET i == run[r].issueId
        IN (/\ run[r].kind = "approve"
            /\ StatusAnswered(r)
            /\ dbIssues[i].status = "requested"
            /\ dbIssues[i].book_id \in Books
            /\ dbBooks[dbIssues[i].book_id].available_copies = 0)
           => (/\ dbIssues' = dbIssues
               /\ dbBooks' = dbBooks
               /\ run'[r].alert = "failure")

\* C2: an approve of an issue that is requested while its book has
\* available_copies = 0 fails with the failure alert and changes neither the
\* issue nor the book
C2_OutOfStockApproveFails == [][C2_OutOfStockStep]_vars

\* two different runs that approved the same issue from closures showing the
\* same available_copies, both with their two writes applied and the success
\* alert shown, while no other handler run was started
BothApproved(r1, r2) ==
    /\ r1 # r2
    /\ \A r \in HandlerRuns \ {r1, r2} : run[r].pc = "idle"
    /\ \A r \in {r1, r2} :
          /\ run[r].kind = "approve"
          /\ run[r].pc = "done"
          /\ run[r].alert = "success"
          /\ run[r].statusWrite = "ok"
          /\ run[r].inventoryWrite = "ok"
    /\ run[r1].issueId = run[r2].issueId
    /\ run[r1].issue.book = run[r2].issue.book

\* C3: two approvals of one issue from snapshots showing available_copies = n
\* each write n - 1, so after both the book has n - 1 copies, not n - 2
C3_LostUpdate ==
    \A r1, r2 \in HandlerRuns :
        BothApproved(r1, r2)
        => dbBooks[run[r1].issue.book.id].available_copies
               = run[r1].issue.book.available_copies - 1

\* C3 witness: two sessions have both approved the same issue successfully
\* and the book has lost one copy only
C3_Witness ==
    \E r1, r2 \in HandlerRuns :
        /\ BothApproved(r1, r2)
        /\ run[r1].session # run[r2].session
        /\ run[r1].issue.status = "requested"
        /\ dbIssues[run[r1].issueId].status = "issued"
        /\ dbBooks[run[r1].issue.book.id].available_copies
               = run[r1].issue.book.available_copies - 1

\* an approve's status write changes the table only when the issue's current
\* status is requested
C4_ApproveStep ==
    \A r \in HandlerRuns :
        (run[r].kind = "approve" /\ StatusAnswered(r) /\ dbIssues' # dbIssues)
        => dbIssues[run[r].issueId].status = "requested"

\* C4: approve takes effect only on a requested issue, and the approvals of
\* one issue lower its book's available_copies at most once
C4_DecrementedAtMostOnce ==
    /\ [][C4_ApproveStep]_vars
    /\ [](\A i \in Issues : decremented[i] <= 1)

\* the step C5 speaks of: the books update of a return of an issued issue is
\* answered while the book has available_copies = total_copies
C5_ReturnStep ==
    \A r \in HandlerRuns :
        LET b == run[r].issue.book.id
        IN (/\ run[r].kind = "return"
            /\ run[r].issue.status = "issued"
            /\ InventoryAnswered(r)
            /\ dbBooks[b].available_copies = dbBooks[b].total_copies)
           => dbBooks'[b].available_copies <= dbBooks'[b].total_copies

\* C5: a return of an issued issue whose book already has available_copies =
\* total_copies leaves available_copies <= total_copies
C5_ReturnKeepsCeiling == [][C5_ReturnStep]_vars

\* C6: summed over all books, available_copies <= total_copies
C6_SumWithinTotal ==
    StockSum(NumBooks, "available_copies") <= StockSum(NumBooks, "total_copies")

\* a step of a run whose status write was applied and whose books update has
\* failed (in this step or before) changes neither table
C7_NoRollbackStep ==
    \A r \in HandlerRuns :
        (/\ Steps(r)
         /\ run[r].statusWrite = "ok"
         /\ run'[r].inventoryWrite = "error")
        => (dbIssues' = dbIssues /\ dbBooks' = dbBooks)

\* C7: after a partial failure (status write applied, books update failed)
\* the handler issues no compensating write: the two tables stay as they are
C7_NoRollback == [][C7_NoRollbackStep]_vars

\* C7 witness: an approve has ended with its status write applied and its
\* books update failed: the issue is issued, the book still has every copy
\* the closure saw
C7_Witness ==
    \E r \in HandlerRuns :
        /\ run[r].kind = "approve"
        /\ run[r].pc = "done"
        /\ run[r].statusWrite = "ok"
        /\ run[r].inventoryWrite = "error"
        /\ dbIssues[run[r].issueId].status = "issued"
        /\ dbBooks[run[r].issue.book.id].available_copies
               = run[r].issue.book.available_copies

\* C8: a handler run one of whose writes failed ends with the failure alert
C8_WriteFailureAlerts ==
    \A r \in HandlerRuns :
        (/\ run[r].pc = "done"
         /\ (run[r].statusWrite = "error" \/ run[r].inventoryWrite = "error"))
        => run[r].alert = "failure"

\* a step changes the status of an issue only from requested to issued or
\* from issued to returned
C9_StatusStep ==
    \A i \in Issues :
        dbIssues'[i].status # dbIssues[i].status
        => \/ dbIssues[i].status = "requested" /\ dbIssues'[i].status = "issued"
           \/ dbIssues[i].status = "issued" /\ dbIssues'[i].status = "returned"

\* C9: in any interleaving the status of an issue only moves requested ->
\* issued and issued -> returned; a returned or overdue issue is never changed
C9_StatusOnlyForward == [][C9_StatusStep]_vars

\* the step C10 speaks of: the update of an accept is answered while the
\* request is not pending, or that of a complete while it is not accepted
C10_OutOfOrderStep ==
    \A r \in HandlerRuns :
        LET st == dbRequests[crun[r].requestId].status
        IN (/\ crun[r].pc = "status"
            /\ crun'[r] # crun[r]
            /\ \/ crun[r].kind = "accept" /\ st # "pending"
               \/ crun[r].kind = "complete" /\ st # "accepted")
           => (dbRequests' = dbRequests /\ crun'[r].alert = "failure")

\* C10: an accept or complete attempted out of order fails and leaves the
\* request's status unchanged
C10_OutOfOrderRejected == [][C10_OutOfOrderStep]_vars


\* the first and the second click of a session
FirstRun == NumSessions + 1
SecondRun == NumSessions + 2

\* the first click approved issue 1 and its run is over; nothing has failed
ScenarioApproved ==
    /\ run[FirstRun].kind = "approve"
    /\ run[FirstRun].issueId = 1
    /\ run[FirstRun].pc = "done"
    /\ faults = 0

\* the second click returned issue 1 and its run is over; nothing has failed
ScenarioReturned ==
    /\ ScenarioApproved
    /\ run[SecondRun].kind = "return"
    /\ run[SecondRun].issueId = 1
    /\ run[SecondRun].pc = "done"

\* C11: from one book with all its copies available and one requested issue,
\* in one session and without failures, the approve leaves one copy fewer
\* available and the issue issued; the return that follows leaves every copy
\* available again and the issue returned with a return date
C11_ApproveThenReturn ==
    /\ ScenarioApproved /\ run[SecondRun].pc = "idle"
          => /\ dbBooks[1].available_copies = ScenarioCopies - 1
             /\ dbIssues[1].status = "issued"
    /\ ScenarioReturned
          => /\ dbBooks[1].available_copies = ScenarioCopies
             /\ dbBooks[1].total_copies = ScenarioCopies
             /\ dbIssues[1].status = "returned"
             /\ dbIssues[1].return_date # Null

C11_Witness ==
    /\ ScenarioReturned
    /\ run[FirstRun].alert = "success"
    /\ run[SecondRun].alert = "success"
    /\ dbBooks[1].available_copies = ScenarioCopies
    /\ dbIssues[1].return_date = Today

\* run r's load settles in this step: Promise.all has its second answer
LoadSettles(r) == run[r].pc = "load" /\ run'[r].pc = "done"

\* one of the two queries of run r's load has failed when it settles
LoadHasFailed(r) ==
    \/ run[r].booksRes.state = "error"
    \/ run[r].issuesRes.state = "error"
    \/ faults' # faults

\* the rows run r's load has fetched when it settles in this step
FetchedBooks(r) ==
    IF run[r].booksRes.state = "ok" THEN run[r].booksRes.data ELSE BooksQuery
FetchedIssues(r) ==
    IF run[r].issuesRes.state = "ok" THEN run[r].issuesRes.data ELSE IssuesQuery

C12_LoadStep ==
    /\ \A r \in Runs :
          LoadSettles(r) =>
             LET s == run[r].session
             IN IF LoadHasFailed(r)
                THEN /\ lib'[s].books = lib[s].books
                     /\ lib'[s].bookIssues = lib[s].bookIssues
                     /\ lib'[s].stats = lib[s].stats
                ELSE /\ lib'[s].books = FetchedBooks(r)
                     /\ lib'[s].bookIssues = FetchedIssues(r)
                     /\ lib'[s].stats = LibraryStats(FetchedBooks(r), FetchedIssues(r))
    /\ \A s \in Sessions :
          lib'[s] # lib[s] => \E r \in Runs : LoadSettles(r) /\ run[r].session = s

\* C12: a load is all-or-nothing: when either of its two queries fails, the
\* held books, issues and stats all stay as they were; otherwise all three
\* are replaced together by what this load fetched; nothing else changes them
C12_LoadAllOrNothing == [][C12_LoadStep]_vars

\* a reload failed and the session still holds the whole snapshot it had
C12_Witness ==
    \E r \in HandlerRuns :
        /\ run[r].pc = "done"
        /\ run[r].load = "error"
        /\ lib[run[r].session].bookIssues # <<>>
        /\ lib[run[r].session].bookIssues # IssuesQuery
        /\ lib[run[r].session].stats =
               LibraryStats(lib[run[r].session].books, lib[run[r].session].bookIssues)

\* C13: a query failure inside the loader is reported to the handler that
\* awaited it: a handler run (librarian or counselor) whose reload failed
\* does not end with the success alert
C13_ReloadFailureReported ==
    /\ \A r \in HandlerRuns :
          run[r].pc = "done" /\ run[r].load = "error" => run[r].alert # "success"
    /\ \A r \in HandlerRuns :
          crun[r].pc = "done" /\ crun[r].load = "error" => crun[r].alert # "success"

\* the counselor half of C13 on its own
C13_CounselorReloadFailureReported ==
    \A r \in HandlerRuns :
        crun[r].pc = "done" /\ crun[r].load = "error" => crun[r].alert # "success"

C14_SuccessStep ==
    \A r \in HandlerRuns :
        run[r].alert # "success" /\ run'[r].alert = "success"
           => /\ LoadSettles(r)
              /\ ~LoadHasFailed(r)
              /\ lib'[run[r].session].books = FetchedBooks(r)
              /\ lib'[run[r].session].bookIssues = FetchedIssues(r)

\* C14: whenever approve or return reports success, the session's snapshot
\* has been refreshed first: the step that raises the success alert is the
\* end of a reload that did not fail, and the session then holds the rows
\* that reload read after the run's writes
C14_SuccessAfterRefresh == [][C14_SuccessStep]_vars

\* counselor run r's update of counseling_requests is applied in this step
RequestWritten(r) == crun[r].pc = "status" /\ crun'[r].statusWrite = "ok"

C15_WriteStep ==
    /\ \A r \in HandlerRuns :
          RequestWritten(r) =>
             dbRequests'[crun[r].requestId].status =
                 (IF crun[r].kind = "accept" THEN "accepted" ELSE "completed")
    /\ \A q \in Requests :
          dbRequests'[q].status # dbRequests[q].status
             => /\ dbRequests'[q].status \in {"accepted", "completed"}
                /\ \E r \in HandlerRuns : RequestWritten(r) /\ crun[r].requestId = q

\* C15: the counseling handler writes no status but accepted (accept) and
\* completed (complete); no step sets a request to pending or cancelled
C15_OnlyAcceptedOrCompleted == [][C15_WriteStep]_vars

\* one request was accepted and then completed through the handler
C15_Witness ==
    \E r1, r2 \in HandlerRuns :
        /\ crun[r1].kind = "accept" /\ crun[r1].statusWrite = "ok"
        /\ crun[r2].kind = "complete" /\ crun[r2].statusWrite = "ok"
        /\ crun[r1].requestId = crun[r2].requestId
        /\ dbRequests[crun[r2].requestId].status = "completed"

C16_WriteStep ==
    \A r \in HandlerRuns :
        RequestWritten(r) =>
           LET old == dbRequests[crun[r].requestId]
               new == dbRequests'[crun[r].requestId]
           IN /\ crun[r].kind = "accept"
                    => new = [old EXCEPT !.status = "accepted"]
              /\ crun[r].kind = "complete"
                    => /\ new.status = "completed"
                       /\ new.completed_at # Null
                       /\ new.counselor_id = old.counselor_id

C16_CompletedHasTimestamp ==
    \A r \in HandlerRuns :
        crun[r].kind = "complete" /\ crun[r].statusWrite = "ok"
           => dbRequests[crun[r].requestId].completed_at # Null

\* C16: accept writes the status alone and leaves the completion timestamp
\* as it was; complete writes the status and a completion timestamp in one
\* update, so a request completed through the handler has a timestamp
C16_AcceptAndCompleteFrame == [][C16_WriteStep]_vars /\ []C16_CompletedHasTimestamp

\* one request accepted and still without a timestamp, another completed
\* with one
C16_Witness ==
    \E r1, r2 \in HandlerRuns :
        /\ crun[r1].kind = "accept" /\ crun[r1].statusWrite = "ok"
        /\ dbRequests[crun[r1].requestId].status = "accepted"
        /\ dbRequests[crun[r1].requestId].completed_at = Null
        /\ crun[r2].kind = "complete" /\ crun[r2].statusWrite = "ok"
        /\ dbRequests[crun[r2].requestId].status = "completed"
        /\ dbRequests[crun[r2].requestId].completed_at = Now

\* every row a dashboard holds belongs to its signed-in counselor
C17_SnapshotOfOwnQueue ==
    \A s \in Sessions :
        \A k \in DOMAIN cns[s].requests :
            /\ cns[s].user # NoId
            /\ cns[s].requests[k].counselor_id = cns[s].user

C17_WriteStep ==
    /\ \A r \in HandlerRuns :
          RequestWritten(r) =>
             LET s == crun[r].session
             IN /\ dbRequests[crun[r].requestId].counselor_id = cns[s].user
                /\ \E k \in DOMAIN cns[s].requests :
                      cns[s].requests[k].id = crun[r].requestId
    /\ \A q \in Requests :
          dbRequests'[q] # dbRequests[q]
             => \E r \in HandlerRuns : RequestWritten(r) /\ crun[r].requestId = q

\* C17: a dashboard's snapshot holds only requests of its signed-in
\* counselor, and a handler run updates one request, which is in the
\* snapshot of the dashboard it was started from and belongs to that counselor
C17_ScopedToOwnQueue == []C17_SnapshotOfOwnQueue /\ [][C17_WriteStep]_vars

\* a counselor has acted on a request while another counselor's request is
\* in the table and not in the snapshot
C17_Witness ==
    \E r \in HandlerRuns, q \in Requests :
        /\ crun[r].pc = "done" /\ crun[r].statusWrite = "ok"
        /\ dbRequests[q].counselor_id # cns[crun[r].session].user
        /\ cns[crun[r].session].requests # <<>>
        /\ \A k \in DOMAIN cns[crun[r].session].requests :
              cns[crun[r].session].requests[k].id # q

C18_ReorderStep ==
    /\ lib'[1].stats = lib[1].stats
    /\ cns'[1].stats = cns[1].stats

\* reducing the held rows once more gives the held stats
C18_SameAgain ==
    /\ lib[1].stats = LibraryStats(lib[1].books, lib[1].bookIssues)
    /\ cns[1].stats = CounselorStats(cns[1].requests)

\* C18: the stats reducers give the same output for every reordering of the
\* rows of a snapshot, and the same output when they are applied again
C18_StatsOrderIndependent == [][C18_ReorderStep]_vars /\ []C18_SameAgain

\* the five rows of the example in another order than they came in
C18_Witness ==
    /\ Len(lib[1].bookIssues) = Len(ExampleStatuses)
    /\ lib[1].bookIssues[1].id = Len(ExampleStatuses)
    /\ lib[1].bookIssues[1].status = "issued"
    /\ lib[1].bookIssues[2].status = "overdue"
    /\ lib[1].stats.issuedBooks = 3
    /\ lib[1].stats.pendingRequests = 1
    /\ lib[1].stats.overdueBooks = 1

\* the number of rows with the given status
CountOf(rows, st) == Cardinality({k \in DOMAIN rows : rows[k].status = st})

RECURSIVE ColumnSum(_, _, _)
\* the sum of a column over the rows with index in `indices`
ColumnSum(rows, indices, field) ==
    IF indices = {} THEN 0
    ELSE LET k == CHOOSE i \in indices : TRUE
         IN rows[k][field] + ColumnSum(rows, indices \ {k}, field)

\* C19: totalBooks and availableBooks are the sums of total_copies and
\* available_copies over the books; issuedBooks, overdueBooks and
\* pendingRequests count the issues that are issued, overdue and requested;
\* the counselor's pendingRequests, activeRequests and completedRequests
\* count the pending, accepted and completed requests and totalRequests
\* counts them all
C19_StatsAreSumsAndCounts ==
    /\ lib[1].stats.totalBooks =
           ColumnSum(lib[1].books, DOMAIN lib[1].books, "total_copies")
    /\ lib[1].stats.availableBooks =
           ColumnSum(lib[1].books, DOMAIN lib[1].books, "available_copies")
    /\ lib[1].stats.issuedBooks = CountOf(lib[1].bookIssues, "issued")
    /\ lib[1].stats.overdueBooks = CountOf(lib[1].bookIssues, "overdue")
    /\ lib[1].stats.pendingRequests = CountOf(lib[1].bookIssues, "requested")
    /\ cns[1].stats.totalRequests = Cardinality(DOMAIN cns[1].requests)
    /\ cns[1].stats.pendingRequests = CountOf(cns[1].requests, "pending")
    /\ cns[1].stats.activeRequests = CountOf(cns[1].requests, "accepted")
    /\ cns[1].stats.completedRequests = CountOf(cns[1].requests, "completed")

\* books of which some copies are out, reduced after a reordering
C19_Witness ==
    /\ Len(lib[1].books) = NumBooks
    /\ lib[1].books[1].id # 1
    /\ lib[1].stats.availableBooks < lib[1].stats.totalBooks
    /\ lib[1].stats.availableBooks > 0

\* a handler run that is under way has told the user nothing yet, and one
\* that is over has raised the success or the failure alert
C20_OneAlert ==
    \A r \in HandlerRuns :
        /\ run[r].pc # "done" => run[r].alert = "none"
        /\ run[r].pc = "done" => run[r].alert \in {"success", "failure"}
        /\ crun[r].pc # "done" => crun[r].alert = "none"
        /\ crun[r].pc = "done" => crun[r].alert \in {"success", "failure"}

\* C20: when every backend call is answered in the end, every handler run
\* (approve, return, accept, complete) ends, and it ends with exactly one of
\* the success and the failure alert
C20_HandlerTerminates ==
    /\ []C20_OneAlert
    /\ \A r \in HandlerRuns : (run[r].pc # "idle") ~> (run[r].pc = "done")
    /\ \A r \in HandlerRuns : (crun[r].pc # "idle") ~> (crun[r].pc = "done")

\* one run has ended with the failure alert and a later one with success
C20_Witness ==
    /\ run[FirstRun].pc = "done" /\ run[FirstRun].alert = "failure"
    /\ run[SecondRun].pc = "done" /\ run[SecondRun].alert = "success"

\* the status values of the interface the rendered badge belongs to
BadgeEnum == IF badge.view = "librarian" THEN IssueStatus ELSE RequestStatus

\* C21: the status badge has a label, an icon and a style class for each of
\* requested, issued, returned, overdue (librarian) and pending, accepted,
\* completed, cancelled (counselor), and no icon or style for any other
\* value: there is no fallback entry
C21_BadgeTotalOverEnum ==
    badge # NoBadge =>
       /\ badge.status \in BadgeEnum
             => /\ badge.label # Undefined
                /\ badge.icon # Undefined
                /\ badge.style # Undefined
       /\ badge.status \notin BadgeEnum
             => /\ badge.icon = Undefined
                /\ badge.style = Undefined

\* the badge of an overdue issue has been rendered
C21_Witness ==
    /\ badge.view = "librarian"
    /\ badge.status = "overdue"
    /\ badge.label = "Overdue"
    /\ badge.icon = "AlertTriangle"

\* the number of book b's issues that are out
IssuedOf(b) ==
    Cardinality({i \in Issues : dbIssues[i].book_id = b /\ dbIssues[i].status = "issued"})

\* no handler run is under way
Quiescent == \A r \in HandlerRuns : run[r].pc \in {"idle", "done"}

\* C22: in one session, with no failed call, whenever every started approve
\* or return is over, each book's available_copies plus the number of its
\* issued issues is what it was at the start (every copy available, none out)
C22_CopiesConserved ==
    Quiescent /\ faults = 0
       => \A b \in Books : dbBooks[b].available_copies + IssuedOf(b) = MaxCopies

\* run r's status write answers with an error in this step
StatusWriteFails(r) == run[r].pc = "status" /\ run'[r].statusWrite = "error"

C23_FailureStep ==
    \A r \in HandlerRuns :
        StatusWriteFails(r) =>
           /\ run'[r].pc = "done"
           /\ run'[r].alert = "failure"
           /\ dbBooks' = dbBooks
           /\ dbIssues' = dbIssues
           /\ lib' = lib

\* a run whose status write failed is over; it made no inventory write and
\* no reload
C23_NothingAfterFailure ==
    \A r \in HandlerRuns :
        run[r].statusWrite = "error" =>
           /\ run[r].pc = "done"
           /\ run[r].inventoryWrite = "none"
           /\ run[r].load = "none"
           /\ run[r].alert = "failure"

\* C23: when the status write of approve or return fails, the handler makes
\* no inventory write and no reload: the tables, the session's snapshot and
\* its stats are as before, and the run ends with the failure alert alone
C23_StatusFailureStops == [][C23_FailureStep]_vars /\ []C23_NothingAfterFailure

\* the approve's status write failed: the issue is still requested, every
\* copy is available and the session shows that
C23_Witness ==
    /\ run[FirstRun].statusWrite = "error"
    /\ run[FirstRun].alert = "failure"
    /\ dbIssues[1].status = "requested"
    /\ dbBooks[1].available_copies = ScenarioCopies
    /\ lib[1].bookIssues[1].status = "requested"

\* C24: in one session, without failures, once every reload has completed
\* the held snapshot is the result of the reload that was started last; that
\* reload was started after every write, so its result is the tables as
\* they are
C24_LastReloadWins ==
    /\ Quiescent
    /\ faults = 0
    /\ \A r \in MountRuns : run[r].pc \in {"idle", "done"}
    => \A s \in Sessions :
          ~lib[s].loading
             => /\ lib[s].books = BooksQuery
                /\ lib[s].bookIssues = IssuesQuery

\* every dashboard shows the stats of the rows it holds
C25_StatsOfSnapshot ==
    \A s \in Sessions :
        /\ lib[s].stats = LibraryStats(lib[s].books, lib[s].bookIssues)
        /\ cns[s].stats = CounselorStats(cns[s].requests)

\* only the end of a load changes what a dashboard holds
C25_ReplaceStep ==
    \A s \in Sessions :
        /\ lib'[s] # lib[s]
              => \E r \in Runs : LoadSettles(r) /\ run[r].session = s
        /\ cns'[s] # cns[s]
              => \E r \in Runs : /\ crun[r].pc = "load" /\ crun'[r].pc = "done"
                                 /\ crun[r].session = s

\* C25: in every state the displayed stats are the stats reducer applied to
\* the held snapshot: rows and stats are replaced together at the end of a
\* load and no handler step changes one without the other
C25_StatsMatchSnapshot == []C25_StatsOfSnapshot /\ [][C25_ReplaceStep]_vars

\* a counselor's reload after an accept has put an accepted request on show
C25_Witness ==
    \E r \in HandlerRuns :
        /\ crun[r].kind = "accept"
        /\ crun[r].load = "ok"
        /\ cns[crun[r].session].stats.activeRequests > 0
        /\ cns[crun[r].session].stats.totalRequests = Len(cns[crun[r].session].requests)

\* run r's book_issues update is applied in this step
StatusApplied(r) == run[r].pc = "status" /\ run'[r].statusWrite = "ok"

\* run r's books update is applied in this step
InventoryApplied(r) == run[r].pc = "inventory" /\ run'[r].inventoryWrite = "ok"

C26_FrameStep ==
    /\ \A i \in Issues :
          dbIssues'[i] # dbIssues[i]
             => /\ \E r \in HandlerRuns : StatusApplied(r) /\ run[r].issueId = i
                /\ dbIssues'[i].book_id = dbIssues[i].book_id
                /\ dbBooks' = dbBooks
    /\ \A b \in Books :
          dbBooks'[b] # dbBooks[b]
             => /\ \E r \in HandlerRuns :
                      InventoryApplied(r) /\ dbIssues[run[r].issueId].book_id = b
                /\ dbBooks'[b].total_copies = dbBooks[b].total_copies
                /\ dbIssues' = dbIssues
    /\ \A q \in Requests :
          dbRequests'[q] # dbRequests[q]
             => /\ \E r \in HandlerRuns : RequestWritten(r) /\ crun[r].requestId = q
                /\ dbRequests'[q].counselor_id = dbRequests[q].counselor_id

\* C26: a transition changes only its target: approve and return write the
\* issue with the given id and the available_copies of that issue's book,
\* never total_copies, another book or another issue; accept and complete
\* write the request with the given id and no other
C26_OnlyTheTarget == [][C26_FrameStep]_vars

\* an approve has changed issue 1 and book 1 while another issue of book 1
\* and the other books are as they were created
C26_Witness ==
    /\ run[FirstRun].kind = "approve"
    /\ run[FirstRun].issueId = 1
    /\ run[FirstRun].inventoryWrite = "ok"
    /\ dbIssues[1].status = "issued"
    /\ \E i \in Issues \ {1} : dbIssues[i].book_id = 1 /\ dbIssues[i].status = "requested"
    /\ \A b \in Books \ {1} : dbBooks[b].available_copies = MaxCopies

\* the first dashboard is idle and its user can click
CanClick == clicks > 0 /\ run[FirstRun].pc = "idle" /\ crun[FirstRun].pc = "idle"

\* the action of row k of the snapshot can be taken from the dashboard
IssueActionable(k) ==
    /\ lib[1].bookIssues[k].status = "requested"
          => ENABLED Invoke(FirstRun, 1, k, "approve")
    /\ lib[1].bookIssues[k].status = "issued"
          => ENABLED Invoke(FirstRun, 1, k, "return")

RequestActionable(k) ==
    cns[1].requests[k].status = "pending" => ENABLED CInvoke(FirstRun, 1, k, "accept")

\* C27 as stated: the action is offered for every requested or issued issue
\* and every pending request of the snapshot, not only for the first 10
\* issues or the first 5 requests
C27_OfferedForEveryRow ==
    CanClick =>
       /\ \A k \in DOMAIN lib[1].bookIssues : IssueActionable(k)
       /\ \A k \in DOMAIN cns[1].requests : RequestActionable(k)

\* the action is offered for the rows that are rendered
C27_OfferedForRenderedRows ==
    CanClick =>
       /\ \A k \in DOMAIN lib[1].bookIssues : k <= IssueRows => IssueActionable(k)
       /\ \A k \in DOMAIN cns[1].requests : k <= RequestRows => RequestActionable(k)

\* a click starts a run for one of the rendered rows, whose status asks for
\* that action
C27_ClickStep ==
    \A r \in HandlerRuns :
        /\ run[r].pc = "idle" /\ run'[r].pc # "idle"
              => \E k \in DOMAIN lib[1].bookIssues :
                    /\ k <= IssueRows
                    /\ lib[1].bookIssues[k].id = run'[r].issueId
                    /\ lib[1].bookIssues[k].status =
                           (IF run'[r].kind = "approve" THEN "requested" ELSE "issued")
        /\ crun[r].pc = "idle" /\ crun'[r].pc # "idle"
              => \E k \in DOMAIN cns[1].requests :
                    /\ k <= RequestRows
                    /\ cns[1].requests[k].id = crun'[r].requestId
                    /\ cns[1].requests[k].status =
                           (IF crun'[r].kind = "accept" THEN "pending" ELSE "accepted")

\* C27 amended: the action is offered for each requested or issued issue
\* among the first 10 rows of the librarian's snapshot and each pending
\* request among the first 5 of the counselor's, and for no row after them
C27_OfferedForFirstRows == []C27_OfferedForRenderedRows /\ [][C27_ClickStep]_vars

\* the last rendered issue has been approved while the row after it, which
\* is requested too, has no button
C27_Witness ==
    /\ run[FirstRun].kind = "approve"
    /\ run[FirstRun].issueId = IssueRows
    /\ Len(lib[1].bookIssues) = IssueRows + 1
    /\ lib[1].bookIssues[IssueRows + 1].status = "requested"

\* C28: every call of a loader clears the loading flag in the end, whether
\* its queries succeed or fail, in the librarian and in the counselor
\* dashboard, also when the counselor dashboard is mounted without a user
C28_LoadingCleared ==
    \A s \in Sessions :
        /\ (run[s].kind = "mount") ~> ~lib[s].loading
        /\ (crun[s].kind = "mount") ~> ~cns[s].loading

\* the same for the dashboards whose user is known when they are mounted
C28_LoadingClearedWithUser ==
    \A s \in Sessions :
        /\ (run[s].kind = "mount") ~> ~lib[s].loading
        /\ (crun[s].kind = "mount" /\ cns[s].user # NoId) ~> ~cns[s].loading

\* C29: every approve or return that reports success has made exactly one
\* inventory write that was applied, also when the issue has no joined book
\* or is not in the snapshot
C29_SuccessHasInventoryWrite ==
    \A r \in HandlerRuns :
        run[r].pc = "done" /\ run[r].alert = "success"
           => /\ run[r].statusWrite = "ok"
              /\ run[r].inventoryWrite = "ok"

\* without a failed call, the same
C29_SuccessHasInventoryWriteNoFault ==
    faults = 0 => C29_SuccessHasInventoryWrite

====
